---- MODULE Spec2Model ----
(***************************************************************************)
(* Model of the ingestion pipeline of app/ingest.py: run_forever,           *)
(* fetch_once, seed_default_sources, upsert_source, process_feed_entry,    *)
(* find_or_create_source, summarize_text and sentiment_label, run by one   *)
(* or two overlapping workers against a shared store with the constraints  *)
(* of app/models.py.                                                       *)
(*                                                                         *)
(* Strings are modelled by what the code reads of them:                    *)
(*   - a hostname is a sequence of labels, a base URL is the scheme        *)
(*     followed by the labels, and LIKE '%host%' is contiguous             *)
(*     containment of sequences;                                           *)
(*   - a text is [none, lead, body, trail, tags]: None or leading          *)
(*     whitespace, the span from the first to the last non-blank           *)
(*     character, trailing whitespace (lengths in characters), and how     *)
(*     many characters of the span are HTML markup;                        *)
(*   - a link is [pad, host, path]: surrounding whitespace, the netloc     *)
(*     labels and a path number (0: no path);                              *)
(*   - the summarizer reads a text as segments separated by periods.       *)
(* Every store access (a query, a commit) is one atomic step; the local    *)
(* computation between two store accesses belongs to the later step.       *)
(* Each query sees the rows committed so far.  The environment may fail:   *)
(* a commit may raise a store error and a feed may fail to load, at most   *)
(* MaxFaults times in a run.  Feed contents, extraction results and the    *)
(* results of the text analysis are fixed for the run, the feed list is a  *)
(* custom one (feedA, feedB).  Durations are in tenths of a second.        *)
(*                                                                         *)
(* Spec and SpecSeq leave out the feed server that never responds: a       *)
(* worker waiting for it takes no further step, which every behaviour      *)
(* without fairness already allows.  SpecLoop has it.                      *)
(***************************************************************************)
EXTENDS Naturals, Integers, Sequences, FiniteSets, TLC

\* ------------------------------------------------------------------ bounds
MaxCycles == 2          \* cycles the loop of run_forever runs
MaxFaults == 1          \* environment failures (store error, feed fetch error) per run
MaxItems == 3           \* settings.MAX_ITEMS_PER_FEED of the modelled configuration
HashRadix == 10         \* paths and paddings of the modelled URLs are below it

\* ------------------------------------------------------- program constants
MinTextLen == 100       \* ingest.py:200
TitleMax == 800         \* ingest.py:210
SummaryMinLen == 50     \* ingest.py:64
TruncateLen == 500      \* ingest.py:85
EllipsisLen == 3        \* ingest.py:85, the length of "..."
CompoundThreshold == 5  \* ingest.py:95 and 97: 0.05, scores are in hundredths
SUMMARY_SENTENCES == 3  \* config.py:24
DefaultInterval == 300  \* config.py:22
MinInterval == 60       \* ingest.py:263
MinSleep == 5           \* ingest.py:277
ArticleTimeout == 30    \* ingest.py:39, seconds
NoTimeout == 0          \* a fetch that is given no timeout

\* Worker 1 is the loop of run_forever (main.py starts it in a thread); worker 2
\* is a one-off fetch_once (ingest.py run as a script) overlapping with it
Workers == {1, 2}

\* ------------------------------------------------------------------ values
NoneText == [none |-> TRUE, lead |-> 0, body |-> 0, trail |-> 0, tags |-> 0]
Text(l, b, t) == [none |-> FALSE, lead |-> l, body |-> b, trail |-> t, tags |-> 0]
\* a text of which m characters are HTML markup, as a feed's summary or content
Markup(l, b, t, m) == [none |-> FALSE, lead |-> l, body |-> b, trail |-> t, tags |-> m]
TextLen(t) == t.lead + t.body + t.trail
\* Python truthiness of an Optional[str]: None and "" are falsy
Falsy(t) == t.none \/ TextLen(t) = 0
\* len(text.strip())
StrippedLen(t) == t.body

NoneTitle == [none |-> TRUE, len |-> 0]
Title(n) == [none |-> FALSE, len |-> n]

Link(p, h, n) == [pad |-> p, host |-> h, path |-> n]
\* (entry.get("link") or "").strip()
StripLink(l) == [l EXCEPT !.pad = 0]
IsEmptyUrl(u) == u.host = <<>> /\ u.path = 0

HostH == <<"h">>
HostBBC == <<"www", "bbc">>
HostCNN == <<"www", "cnn">>
HostReuters == <<"www", "reuters">>

Labels == <<"www", "bbc", "cnn", "reuters", "h">>
LabelCode(l) == CHOOSE i \in 1..Len(Labels) : Labels[i] = l

RECURSIVE HostCode(_)
HostCode(h) ==
    IF h = <<>> THEN 0
    ELSE HostCode(SubSeq(h, 1, Len(h) - 1)) * (Len(Labels) + 1) + LabelCode(h[Len(h)])

\* make_hash: SHA-256 of the string it is given, modelled as an injective
\* encoding of the string (whitespace, host, path) into a number
make_hash(u) == (HostCode(u.host) * HashRadix + u.path) * HashRadix + u.pad

\* get_hostname: urlparse(url).netloc.lower(); the modelled labels are in
\* lower case, and a URL without netloc gives the empty hostname
get_hostname(u) == u.host

BaseUrlOf(host) == <<"https://">> \o host

\* SQL LIKE '%needle%': needle occurs contiguously in hay
Contains(hay, needle) ==
    \E i \in 0..(Len(hay) - Len(needle)) :
        SubSeq(hay, i + 1, i + Len(needle)) = needle

RECURSIVE RemoveWww(_)
RemoveWww(h) ==
    IF h = <<>> THEN <<>>
    ELSE IF Head(h) = "www" THEN RemoveWww(Tail(h))
    ELSE <<Head(h)>> \o RemoveWww(Tail(h))

TitleCase(l) ==
    CASE l = "bbc" -> "Bbc"
      [] l = "cnn" -> "Cnn"
      [] l = "reuters" -> "Reuters"
      [] l = "h" -> "H"
      [] OTHER -> ""

\* hostname.replace("www.", "").split(".")[0].title()
SourceNameOf(host) ==
    LET r == RemoveWww(host) IN IF r = <<>> THEN "" ELSE TitleCase(Head(r))

\* ----------------------------------------------------------- configuration
DEFAULT_SOURCES ==
    << [name |-> "BBC", base_url |-> BaseUrlOf(HostBBC), rss_url |-> "rssBBC"],
       [name |-> "CNN", base_url |-> BaseUrlOf(HostCNN), rss_url |-> "rssCNN"],
       [name |-> "Reuters", base_url |-> BaseUrlOf(HostReuters), rss_url |-> "rssReuters"] >>

\* settings.FEEDS of the modelled configuration
FEEDS == <<"feedA", "feedB">>

\* a feed entry: link, title, inline content (entry.content) and summary
\* a time of a feed entry (published_parsed, updated_parsed): absent, or a
\* time tuple; valid: datetime(*tuple[:6]) accepts the tuple
NoneTime == [none |-> TRUE, valid |-> FALSE, t |-> 0]
Time(n) == [none |-> FALSE, valid |-> TRUE, t |-> n]
BadTime == [none |-> FALSE, valid |-> FALSE, t |-> 0]

EntryC(l, t, c, s) ==
    [link |-> l, title |-> t, content |-> c, summary |-> s,
     published |-> NoneTime, updated |-> NoneTime]
\* the entry e with its published and its updated time
Dated(e, p, u) == [e EXCEPT !.published = p, !.updated = u]
Entry(l, t, s) == EntryC(l, t, NoneText, s)

\* What feedparser returns for each feed while its content is unchanged
FeedEntries(f) ==
    IF f = "feedA" THEN
        << Dated(Entry(Link(0, <<>>, 1), NoneTitle, Markup(0, 120, 0, 30)),
                 BadTime, Time(2)),
           Entry(Link(0, HostH, 1), Title(10), NoneText) >>
    ELSE
        << Dated(Entry(Link(1, HostH, 2), Title(900), Text(0, 20, 0)),
                 NoneTime, Time(7)),
           Dated(EntryC(Link(0, HostBBC, 1), Title(10), Markup(0, 200, 0, 40),
                        Text(0, 150, 0)),
                 Time(5), Time(6)),
           Entry(Link(2, <<>>, 0), Title(10), Text(0, 150, 0)),
           Entry(Link(0, HostH, 2), Title(10), NoneText) >>

\* What extract_text returns for each URL while the page is unchanged
extract_text(u) ==
    IF u.host = <<>> THEN NoneText
    ELSE IF u.host = HostH /\ u.path = 1 THEN Text(1, 99, 1)
    ELSE IF u.host = HostH THEN Text(0, 300, 2)
    ELSE Text(0, 100, 0)

\* fp.entries[:max_items]
Capped(es) == SubSeq(es, 1, IF Len(es) < MaxItems THEN Len(es) ELSE MaxItems)

\* ---------------------------------------------------------------- analysis
\* The summarizer reads a text as segments: each is leading whitespace l, a
\* core of c characters without a period (from its first to its last non-blank
\* character), trailing whitespace r, and then `dots` periods.  A blank segment
\* has c = 0 and its whitespace in l; only the last segment may have no period.
Seg(l, c, r, d) == [l |-> l, c |-> c, r |-> r, dots |-> d]
NoneDoc == [none |-> TRUE, segs |-> <<>>]
Doc(segs) == [none |-> FALSE, segs |-> segs]
\* a string of which only the length is kept
NoneStr == [none |-> TRUE, len |-> 0]
Str(n) == [none |-> FALSE, len |-> n]

RECURSIVE Sum(_)
Sum(q) == IF q = <<>> THEN 0 ELSE Head(q) + Sum(Tail(q))

\* len(text)
DocLen(d) == Sum([i \in 1..Len(d.segs) |-> d.segs[i].l + d.segs[i].c + d.segs[i].r + d.segs[i].dots])

\* len(text.strip())
DocStrippedLen(d) ==
    LET n == Len(d.segs)
        last == d.segs[n]
        trail == IF last.dots > 0 THEN 0
                 ELSE IF last.c > 0 THEN last.r
                 ELSE IF n > 1 THEN last.l ELSE 0
    IN  IF n = 0 THEN 0 ELSE DocLen(d) - d.segs[1].l - trail

\* the text as the string it is
StrOf(d) == IF d.none THEN NoneStr ELSE Str(DocLen(d))

\* [s.strip() for s in text.replace("\n", " ").split(".") if s.strip()], the
\* length of each item
RECURSIVE SentenceList(_)
SentenceList(segs) ==
    IF segs = <<>> THEN <<>>
    ELSE IF Head(segs).c > 0 THEN <<Head(segs).c>> \o SentenceList(Tail(segs))
    ELSE SentenceList(Tail(segs))

\* Python's list[:n]
Take(q, n) ==
    IF n >= 0 THEN SubSeq(q, 1, IF n < Len(q) THEN n ELSE Len(q))
    ELSE SubSeq(q, 1, IF Len(q) + n > 0 THEN Len(q) + n ELSE 0)

\* len(". ".join(items) + ".")
JoinedLen(items) == Sum(items) + 2 * (IF Len(items) > 0 THEN Len(items) - 1 ELSE 0) + 1

\* summarize_text.  lsa is what the LSA branch does on this text: it raises,
\* or it gives a summary of lsa.len characters (0: nothing but whitespace)
summarize_text(text, sentences, lsa) ==
    IF text.none \/ DocLen(text) = 0 \/ DocStrippedLen(text) < SummaryMinLen
    THEN StrOf(text)
    ELSE IF ~lsa.raises /\ lsa.len > 0 THEN Str(lsa.len)
    ELSE IF SentenceList(text.segs) # <<>>
    THEN Str(JoinedLen(Take(SentenceList(text.segs), sentences)))
    ELSE IF DocLen(text) > TruncateLen THEN Str(TruncateLen + EllipsisLen)
    ELSE StrOf(text)

\* what sent_analyzer.polarity_scores does: it raises, or it returns a dict
\* that has a "compound" score (in hundredths) or lacks the key
Raises == [raises |-> TRUE, has |-> FALSE, compound |-> 0]
NoCompound == [raises |-> FALSE, has |-> FALSE, compound |-> 0]
Compound(c) == [raises |-> FALSE, has |-> TRUE, compound |-> c]

\* mutant of sentiment_label: an error of the analyzer is not caught
sentiment_label_uncaught(text, vs) ==
    IF text.none \/ text.len = 0 THEN "neutral"
    ELSE IF vs.raises THEN "error"
    ELSE LET compound == IF vs.has THEN vs.compound ELSE 0
         IN  IF compound >= CompoundThreshold THEN "positive"
             ELSE IF compound <= 0 - CompoundThreshold THEN "negative"
             ELSE "neutral"

\* sentiment_label
sentiment_label(text, vs) ==
    IF text.none \/ text.len = 0 THEN "neutral"
    ELSE IF vs.raises THEN "neutral"
    ELSE LET compound == IF vs.has THEN vs.compound ELSE 0
         IN  IF compound >= CompoundThreshold THEN "positive"
             ELSE IF compound <= 0 - CompoundThreshold THEN "negative"
             ELSE "neutral"

\* the LSA branch's result
LsaRaises == [raises |-> TRUE, len |-> 0]
LsaGives(n) == [raises |-> FALSE, len |-> n]

\* the page and summary texts of the modelled feeds are one run of characters
\* without a period
DocOf(t) == IF t.none THEN NoneDoc ELSE Doc(<<Seg(t.lead, t.body, t.trail, 0)>>)

\* What the LSA branch and the polarity analyzer give for the text of each
\* URL while the page is unchanged
LsaOf(u) == IF u.host = HostBBC THEN LsaGives(80) ELSE LsaRaises
PolarityOf(u) ==
    IF u.host = HostBBC THEN Compound(60)
    ELSE IF u.host = HostH /\ u.path = 2 THEN Compound(0 - 30)
    ELSE IF u.host = HostH THEN Raises
    ELSE NoCompound

\* no direct call
NoCall ==
    [op |-> "none", text |-> NoneDoc, sentences |-> 0, lsa |-> LsaRaises,
     str |-> NoneStr, vs |-> Raises, out |-> NoneStr, label |-> ""]

\* -------------------------------------------------------------- run_forever
\* mutant of ClampInterval: the configured value is taken as it is
UnclampedInterval(v) == v

\* max(60, int(settings.FETCH_INTERVAL_SECONDS))
ClampInterval(v) == IF v > MinInterval THEN v ELSE MinInterval

\* max(5, interval - int(elapsed)); elapsed is in tenths of a second
SleepFor(interval, elapsed) ==
    LET rest == interval - (elapsed \div 10)
    IN  IF rest > MinSleep THEN rest ELSE MinSleep

\* the worker that runs run_forever; the other one calls fetch_once once
Looping(w) == w = 1

\* a fetch of a server that never responds returns only if it has a timeout
Blocks(timeout) == timeout = NoTimeout
\* feedparser.parse(feed_url) is called without a timeout
FeedTimeout == NoTimeout

\* ------------------------------------------------------------------- state
VARIABLES
    sources,      \* table sources: row id = position; [name, base_url, rss_url]
    articles,     \* table articles: row id = position
    active,       \* the workers (threads or processes running the loop) of this run
    faults,       \* environment failures so far
    st,           \* per worker: position and locals of fetch_once and its callees
    lastEntry,    \* per worker: how its latest process_feed_entry call ended
    attempted,    \* per worker: feeds parsed and entries handed to process_feed_entry this cycle
    resolvedBy,   \* per feed: the Source ids find_or_create_source has returned for its entries
    counts,       \* per worker: number of Article rows at the end of each of its cycles
    env,          \* settings.FETCH_INTERVAL_SECONDS and the durations a cycle may take
    stop,         \* the application has begun its shutdown (main.py lifespan)
    fn            \* a direct call of summarize_text or sentiment_label and its result

vars ==
    <<sources, articles, active, faults, st, lastEntry, attempted, resolvedBy, counts,
      env, stop, fn>>

\* feeds: feeds the cycle tried; parsed: feeds that gave their entries; entries:
\* <<feed, entry>> positions handed to process_feed_entry; failures: the kinds
\* of failure the cycle met
\* order: the feeds in the order the cycle tried them, one item per attempt;
\* candidates: the positions whose entry had a link; skipped: the positions
\* whose call ended in a failure; before: the positions skipped in the cycle
\* before this one
NoneAttempted ==
    [feeds |-> {}, parsed |-> {}, entries |-> {}, failures |-> {}, order |-> <<>>,
     candidates |-> {}, skipped |-> {}, before |-> {}]

\* process_feed_entry: the failures that end a call with nothing stored: no
\* Source resolved (a uniqueness conflict on its creation included), text
\* below the minimum, store error on commit
FailureKinds == {"no_source", "short", "store_error"}

\* The cycles of each worker the model follows: the loop alone for MaxCycles
\* cycles, the loop overlapped by the one-off call for one cycle less, the
\* one-off call for its single cycle
CyclesOf(w) ==
    IF w # 1 THEN 1
    ELSE IF active = Workers THEN MaxCycles - 1
    ELSE MaxCycles

NoArgs == [name |-> "", base_url |-> <<>>, rss_url |-> ""]

FeedIdx == 1..Len(FEEDS)

InitWorker ==
    [pc |-> "idle", cycle |-> 0, si |-> 0, fi |-> 0, ei |-> 0, entries |-> <<>>,
     source |-> 0, args |-> NoArgs, found |-> 0, ctx |-> "none",
     elapsed |-> 0, sleep_for |-> 0]

\* state: "none" (no call yet), "open" (a call is running), "ended"; ok: the
\* call's return value; dedup: the call got past the dedup check; wrote: the
\* Source ids the call inserted or updated
\* why: "stored", or why nothing was stored ("no_link", "known", "no_source",
\* "short", "conflict", "store_error"); fetched: the call ran extract_text on
\* the link; used: where its text came from ("page", "summary", "none")
NoEntry ==
    [fi |-> 0, ei |-> 0, state |-> "none", ok |-> FALSE, dedup |-> FALSE, wrote |-> {},
     why |-> "none", fetched |-> FALSE, used |-> "none"]

InitCommon ==
    /\ sources = <<>>
    /\ articles = <<>>
    /\ faults = 0
    /\ st = [w \in Workers |-> InitWorker]
    /\ lastEntry = [w \in Workers |-> NoEntry]
    /\ attempted = [w \in Workers |-> NoneAttempted]
    /\ resolvedBy = [f \in FeedIdx |-> {}]
    /\ counts = [w \in Workers |-> <<>>]
    /\ stop = FALSE
    /\ fn = NoCall

\* the default interval, and cycles whose duration is below a second
DefaultEnv == [FETCH_INTERVAL_SECONDS |-> DefaultInterval, durations |-> {0}]

\* two overlapping loops on one store
Init == InitCommon /\ active = Workers /\ env = DefaultEnv
\* a single ingestion loop
InitSeq == InitCommon /\ active = {1} /\ env = DefaultEnv

\* ------------------------------------------------------------- store access
Ids(table) == 1..Len(table)

\* mutant of ByBaseUrl: the lookup by base_url never finds the row
ByBaseUrlNone(base_url) == {}

\* db.query(Source).filter(Source.base_url == base_url)
ByBaseUrl(base_url) == {i \in Ids(sources) : sources[i].base_url = base_url}
\* db.query(Source).filter(Source.rss_url == feed_url)
ByRssUrl(feed_url) == {i \in Ids(sources) : sources[i].rss_url = feed_url}
\* db.query(Source).filter(Source.base_url.like(f"%{hostname}%"))
ByHostLike(hostname) == {i \in Ids(sources) : Contains(sources[i].base_url, hostname)}
\* db.query(Article).filter(Article.url_hash == url_h)
ByUrlHash(url_h) == {i \in Ids(articles) : articles[i].url_hash = url_h}

\* mutant of FeedUrlMatches: the hostname match is consulted before the feed URL
HostFirstMatches(s) ==
    LET hostname == get_hostname(StripLink(s.entries[s.ei].link))
    IN  IF hostname # <<>> /\ ByHostLike(hostname) # {}
        THEN ByHostLike(hostname)
        ELSE ByRssUrl(FEEDS[s.fi])

\* find_or_create_source: the rows its first query returns
FeedUrlMatches(s) == ByRssUrl(FEEDS[s.fi])

\* Column rss_url unique=True: the row `self` (0 for a new row) may not take
\* an rss_url another row has
SourceUniqueViolated(rss_url, self) ==
    \E i \in Ids(sources) : i # self /\ sources[i].rss_url = rss_url

\* mutant of ArticleUniqueViolated: the table has no unique constraint
NoArticleConstraint(url_h) == FALSE

\* UniqueConstraint("url_hash")
ArticleUniqueViolated(url_h) == ByUrlHash(url_h) # {}

\* mutant of AlreadyStored: the dedup query never finds the Article
NeverStored(url_h) == FALSE

\* process_feed_entry: the dedup query finds an Article with this hash
AlreadyStored(url_h) == ByUrlHash(url_h) # {}

\* ------------------------------------------------------------- control flow
\* mutant of AfterFeed: the loop over the feeds ends after its first feed
AfterFeedFirstOnly(s) == [s EXCEPT !.pc = "close", !.ei = 0, !.entries = <<>>]

\* fetch_once: the `for feed_url in feeds` loop moves on, then the session closes
AfterFeed(s) ==
    IF s.fi < Len(FEEDS)
    THEN [s EXCEPT !.pc = "feed", !.fi = s.fi + 1, !.ei = 0, !.entries = <<>>]
    ELSE [s EXCEPT !.pc = "close", !.ei = 0, !.entries = <<>>]

\* mutant of AfterEntry: an entry that was not stored ends the cycle
AfterEntryAbort(s, ok) ==
    LET c == [s EXCEPT !.source = 0, !.args = NoArgs, !.found = 0, !.ctx = "none"]
    IN  IF ~ok
        THEN [c EXCEPT !.pc = "close", !.ei = 0, !.entries = <<>>]
        ELSE IF s.ei < Len(s.entries)
        THEN [c EXCEPT !.pc = "entry", !.ei = s.ei + 1]
        ELSE AfterFeed(c)

\* mutant of AfterEntry: an entry that was not stored is handed to
\* process_feed_entry again
AfterEntryRetry(s, ok) ==
    LET c == [s EXCEPT !.source = 0, !.args = NoArgs, !.found = 0, !.ctx = "none"]
    IN  IF ~ok
        THEN [c EXCEPT !.pc = "entry"]
        ELSE IF s.ei < Len(s.entries)
        THEN [c EXCEPT !.pc = "entry", !.ei = s.ei + 1]
        ELSE AfterFeed(c)

\* fetch_once: the `for entry in fp.entries[:max_items]` loop moves on whatever
\* process_feed_entry returned
AfterEntry(s, ok) ==
    LET c == [s EXCEPT !.source = 0, !.args = NoArgs, !.found = 0, !.ctx = "none"]
    IN  IF s.ei < Len(s.entries)
        THEN [c EXCEPT !.pc = "entry", !.ei = s.ei + 1]
        ELSE AfterFeed(c)

\* seed_default_sources: the next default source, then the feeds
AfterSeed(s) ==
    IF s.si < Len(DEFAULT_SOURCES)
    THEN [s EXCEPT !.pc = "upsert_query", !.si = s.si + 1,
                   !.args = DEFAULT_SOURCES[s.si + 1], !.found = 0]
    ELSE [s EXCEPT !.pc = "feed", !.si = 0, !.fi = 1, !.args = NoArgs,
                   !.found = 0, !.ctx = "none"]

CurEntry(s) == s.entries[s.ei]
CurUrl(s) == StripLink(CurEntry(s).link)
CurFeed(s) == FEEDS[s.fi]

\* process_feed_entry, lines 196-198: which of its strategies gave the text
UsedStrategy(e, url) ==
    IF ~Falsy(extract_text(url)) THEN "page"
    ELSE IF ~Falsy(e.summary) THEN "summary"
    ELSE "none"

\* process_feed_entry returns `ok`; a call that ends after the source was
\* resolved has run extract_text
EntryEnds(w, s, ok, why) ==
    /\ st' = [st EXCEPT ![w] = AfterEntry(s, ok)]
    /\ lastEntry' = [lastEntry EXCEPT
                        ![w].state = "ended", ![w].ok = ok, ![w].why = why,
                        ![w].fetched = (s.pc = "persist"),
                        ![w].used = IF s.pc = "persist"
                                    THEN UsedStrategy(CurEntry(s), CurUrl(s)) ELSE "none"]
    /\ attempted' = [attempted EXCEPT
                        ![w].failures = IF ok \/ why = "known" THEN @ ELSE @ \cup {why},
                        ![w].skipped = IF why \in FailureKinds
                                       THEN @ \cup {<<s.fi, s.ei>>} ELSE @]

\* find_or_create_source returned Source `id`: process_feed_entry goes on to
\* the extraction
SourceResolved(w, s, id, wrote) ==
    /\ st' = [st EXCEPT ![w] = [s EXCEPT !.pc = "persist", !.source = id,
                                          !.args = NoArgs, !.found = 0]]
    /\ lastEntry' = [lastEntry EXCEPT ![w].wrote = @ \cup wrote]
    /\ resolvedBy' = [resolvedBy EXCEPT ![s.fi] = @ \cup {id}]
    /\ UNCHANGED attempted

\* upsert_source returns `id` (0: None) to its caller
UpsertReturns(w, s, id, wrote) ==
    IF s.ctx = "seed"
    THEN /\ st' = [st EXCEPT ![w] = AfterSeed(s)]
         /\ UNCHANGED <<lastEntry, resolvedBy, attempted>>
    ELSE IF id = 0
    THEN /\ EntryEnds(w, s, FALSE, "no_source")
         /\ UNCHANGED resolvedBy
    ELSE SourceResolved(w, s, id, wrote)

\* ------------------------------------------------------------------ actions
\* fetch_once opens a session and seed_default_sources calls upsert_source
\* for the first default source
StartCycle(w) ==
    /\ st[w].pc = "idle"
    /\ st[w].cycle < CyclesOf(w)
    /\ st' = [st EXCEPT ![w] = [@ EXCEPT !.pc = "upsert_query", !.si = 1,
                                         !.args = DEFAULT_SOURCES[1], !.found = 0,
                                         !.ctx = "seed"]]
    /\ attempted' = [attempted EXCEPT
                        ![w] = [NoneAttempted EXCEPT !.before = attempted[w].skipped]]
    /\ UNCHANGED <<sources, articles, active, faults, lastEntry, resolvedBy, counts, env, stop, fn>>

\* upsert_source, the query by base_url and the decision it leads to: return
\* the row, update its rss_url, or insert
UpsertQuery(w) ==
    LET s == st[w]
        hits == ByBaseUrl(s.args.base_url)
    IN  /\ s.pc = "upsert_query"
        /\ IF hits = {}
           THEN /\ st' = [st EXCEPT ![w] = [s EXCEPT !.pc = "upsert_commit", !.found = 0]]
                /\ UNCHANGED <<lastEntry, resolvedBy, attempted>>
           ELSE \E i \in hits :
                  IF s.args.rss_url # "" /\ sources[i].rss_url # s.args.rss_url
                  THEN /\ st' = [st EXCEPT ![w] = [s EXCEPT !.pc = "upsert_commit", !.found = i]]
                       /\ UNCHANGED <<lastEntry, resolvedBy, attempted>>
                  ELSE UpsertReturns(w, s, i, {})
        /\ UNCHANGED <<sources, articles, active, faults, counts, env, stop, fn>>

\* upsert_source, db.commit() of the insert or of the update: the store
\* checks the unique rss_url; IntegrityError is caught, rolled back, None
UpsertCommit(w) ==
    LET s == st[w]
        row == [name |-> s.args.name, base_url |-> s.args.base_url,
                rss_url |-> s.args.rss_url]
    IN  /\ s.pc = "upsert_commit"
        /\ IF SourceUniqueViolated(s.args.rss_url, s.found)
           THEN /\ UpsertReturns(w, s, 0, {})
                /\ UNCHANGED sources
           ELSE IF s.found = 0
           THEN /\ sources' = Append(sources, row)
                /\ UpsertReturns(w, s, Len(sources) + 1, {Len(sources) + 1})
           ELSE /\ sources' = [sources EXCEPT ![s.found].rss_url = s.args.rss_url]
                /\ UpsertReturns(w, s, s.found, {s.found})
        /\ UNCHANGED <<articles, active, faults, counts, env, stop, fn>>

\* upsert_source, db.commit() raises SQLAlchemyError: rolled back, None
UpsertStoreError(w) ==
    /\ st[w].pc = "upsert_commit"
    /\ faults < MaxFaults
    /\ faults' = faults + 1
    /\ UpsertReturns(w, st[w], 0, {})
    /\ UNCHANGED <<sources, articles, active, counts, env, stop, fn>>

\* fetch_once: feedparser.parse(feed_url) and the capped entry list
ParseFeed(w) ==
    LET s == st[w]
        es == Capped(FeedEntries(CurFeed(s)))
    IN  /\ s.pc = "feed"
        /\ st' = [st EXCEPT ![w] =
                     IF es = <<>> THEN AfterFeed(s)
                     ELSE [s EXCEPT !.pc = "entry", !.ei = 1, !.entries = es]]
        /\ attempted' = [attempted EXCEPT ![w].feeds = @ \cup {s.fi},
                                          ![w].parsed = @ \cup {s.fi},
                                          ![w].order = Append(@, s.fi)]
        /\ UNCHANGED <<sources, articles, active, faults, lastEntry, resolvedBy, counts, env, stop, fn>>

\* fetch_once: the feed cannot be fetched or parsed (no entries, or an
\* exception caught per feed): the loop continues with the next feed
ParseFeedFails(w) ==
    LET s == st[w]
    IN  /\ s.pc = "feed"
        /\ faults < MaxFaults
        /\ faults' = faults + 1
        /\ st' = [st EXCEPT ![w] = AfterFeed(s)]
        /\ attempted' = [attempted EXCEPT ![w].feeds = @ \cup {s.fi},
                                          ![w].failures = @ \cup {"feed"},
                                          ![w].order = Append(@, s.fi)]
        /\ UNCHANGED <<sources, articles, active, lastEntry, resolvedBy, counts, env, stop, fn>>

\* process_feed_entry: the link, its hash and the dedup query
DedupCheck(w) ==
    LET s == st[w]
        url == CurUrl(s)
        open == [NoEntry EXCEPT !.fi = s.fi, !.ei = s.ei, !.state = "open"]
        skip == IF IsEmptyUrl(url) THEN "no_link" ELSE "known"
    IN  /\ s.pc = "entry"
        /\ attempted' = [attempted EXCEPT
                            ![w].entries = @ \cup {<<s.fi, s.ei>>},
                            ![w].candidates = IF IsEmptyUrl(url) THEN @
                                              ELSE @ \cup {<<s.fi, s.ei>>}]
        /\ IF IsEmptyUrl(url) \/ AlreadyStored(make_hash(url))
           THEN /\ st' = [st EXCEPT ![w] = AfterEntry(s, FALSE)]
                /\ lastEntry' = [lastEntry EXCEPT ![w] =
                                    [open EXCEPT !.state = "ended", !.why = skip]]
           ELSE /\ st' = [st EXCEPT ![w] = [s EXCEPT !.pc = "by_feed"]]
                /\ lastEntry' = [lastEntry EXCEPT ![w] = [open EXCEPT !.dedup = TRUE]]
        /\ UNCHANGED <<sources, articles, active, faults, resolvedBy, counts, env, stop, fn>>

\* find_or_create_source: the Source whose rss_url is the feed URL
FindByFeed(w) ==
    LET s == st[w]
        hits == FeedUrlMatches(s)
    IN  /\ s.pc = "by_feed"
        /\ IF hits # {}
           THEN \E i \in hits : SourceResolved(w, s, i, {})
           ELSE /\ st' = [st EXCEPT ![w] = [s EXCEPT !.pc = "by_host"]]
                /\ UNCHANGED <<lastEntry, resolvedBy, attempted>>
        /\ UNCHANGED <<sources, articles, active, faults, counts, env, stop, fn>>

\* find_or_create_source: the hostname, the Source whose base_url contains
\* it, else the call of upsert_source for a new Source
FindByHost(w) ==
    LET s == st[w]
        hostname == get_hostname(CurUrl(s))
        hits == ByHostLike(hostname)
    IN  /\ s.pc = "by_host"
        /\ IF hostname = <<>>
           THEN /\ EntryEnds(w, s, FALSE, "no_source")
                /\ UNCHANGED resolvedBy
           ELSE IF hits # {}
           THEN \E i \in hits : SourceResolved(w, s, i, {})
           ELSE /\ st' = [st EXCEPT ![w] =
                            [s EXCEPT !.pc = "upsert_query", !.ctx = "entry", !.found = 0,
                                      !.args = [name |-> SourceNameOf(hostname),
                                                base_url |-> BaseUrlOf(hostname),
                                                rss_url |-> CurFeed(s)]]]
                /\ UNCHANGED <<lastEntry, resolvedBy, attempted>>
        /\ UNCHANGED <<sources, articles, active, faults, counts, env, stop, fn>>

\* process_feed_entry: text = extract_text(url), else the entry's summary
ObtainedText(e, url) ==
    IF Falsy(extract_text(url)) THEN e.summary ELSE extract_text(url)

\* process_feed_entry: summary = summarize_text(text, settings.SUMMARY_SENTENCES)
Summary(e, url) == summarize_text(DocOf(ObtainedText(e, url)), SUMMARY_SENTENCES, LsaOf(url))

\* process_feed_entry: sentiment = sentiment_label(summary or text)
Sentiment(e, url) ==
    LET summary == Summary(e, url)
        text == ObtainedText(e, url)
    IN  sentiment_label(IF summary.none \/ summary.len = 0
                        THEN StrOf(DocOf(text)) ELSE summary,
                        PolarityOf(url))

\* mutant of TooShort: the length is taken without strip()
TooShortRaw(text) == Falsy(text) \/ TextLen(text) < MinTextLen

\* process_feed_entry: `not text or len(text.strip()) < 100`
TooShort(text) == Falsy(text) \/ StrippedLen(text) < MinTextLen

\* (entry.get("title") or "")[:800]
StoredTitle(t) ==
    IF t.none THEN 0 ELSE IF t.len > TitleMax THEN TitleMax ELSE t.len

\* parse_published_date: datetime(*entry.published_parsed[:6]) when the entry
\* has a published time and datetime accepts it, else None
parse_published_date(e) ==
    IF ~e.published.none /\ e.published.valid THEN e.published ELSE NoneTime

\* mutant of NewArticle: the hash is taken of the link before strip()
NewArticleRawHash(s) ==
    LET e == CurEntry(s)
        url == CurUrl(s)
    IN  [source_id |-> s.source, title |-> StoredTitle(e.title), url |-> url,
         url_hash |-> make_hash(e.link), full_text |-> ObtainedText(e, url),
         published_at |-> parse_published_date(e),
         summary |-> Summary(e, url), sentiment |-> Sentiment(e, url),
         meta |-> [feed |-> CurFeed(s), feed_title |-> e.title]]

\* mutant of NewArticle: the Article is built with the id of no Source
NewArticleNoSource(s) ==
    LET e == CurEntry(s)
        url == CurUrl(s)
    IN  [source_id |-> 0, title |-> StoredTitle(e.title), url |-> url,
         url_hash |-> make_hash(url), full_text |-> ObtainedText(e, url),
         published_at |-> parse_published_date(e),
         summary |-> Summary(e, url), sentiment |-> Sentiment(e, url),
         meta |-> [feed |-> CurFeed(s), feed_title |-> e.title]]

\* the Article row process_feed_entry builds
NewArticle(s) ==
    LET e == CurEntry(s)
        url == CurUrl(s)
    IN  [source_id |-> s.source, title |-> StoredTitle(e.title), url |-> url,
         url_hash |-> make_hash(url), full_text |-> ObtainedText(e, url),
         published_at |-> parse_published_date(e),
         summary |-> Summary(e, url), sentiment |-> Sentiment(e, url),
         meta |-> [feed |-> CurFeed(s), feed_title |-> e.title]]

\* process_feed_entry from the extraction to db.commit(): extract_text
\* returns, at the latest when its timeout expires; a short text is
\* skipped; IntegrityError on the unique url_hash is rolled back
Persist(w) ==
    LET s == st[w]
        a == NewArticle(s)
    IN  /\ s.pc = "persist"
        /\ ~Blocks(ArticleTimeout)
        /\ IF TooShort(a.full_text) \/ ArticleUniqueViolated(a.url_hash)
           THEN /\ EntryEnds(w, s, FALSE, IF TooShort(a.full_text) THEN "short" ELSE "conflict")
                /\ UNCHANGED articles
           ELSE /\ articles' = Append(articles, a)
                /\ EntryEnds(w, s, TRUE, "stored")
        /\ UNCHANGED <<sources, active, faults, resolvedBy, counts, env, stop, fn>>

\* process_feed_entry: db.commit() raises another error: rolled back, False
PersistStoreError(w) ==
    LET s == st[w]
    IN  /\ s.pc = "persist"
        /\ ~Blocks(ArticleTimeout)
        /\ ~TooShort(NewArticle(s).full_text)
        /\ faults < MaxFaults
        /\ faults' = faults + 1
        /\ EntryEnds(w, s, FALSE, "store_error")
        /\ UNCHANGED <<sources, articles, active, resolvedBy, counts, env, stop, fn>>

\* fetch_once: finally db.close().  In run_forever the cycle has taken
\* `elapsed` and the loop computes sleep_for; the one-off call is done
FinishCycle(w) ==
    LET s == st[w]
        c == [s EXCEPT !.cycle = s.cycle + 1, !.fi = 0]
    IN  /\ s.pc = "close"
        /\ IF Looping(w)
           THEN \E d \in env.durations :
                  st' = [st EXCEPT ![w] =
                            [c EXCEPT !.pc = "sleep", !.elapsed = d,
                                      !.sleep_for = SleepFor(ClampInterval(
                                          env.FETCH_INTERVAL_SECONDS), d)]]
           ELSE st' = [st EXCEPT ![w] = [c EXCEPT !.pc = "done"]]
        /\ counts' = [counts EXCEPT ![w] = Append(@, Len(articles))]
        /\ UNCHANGED <<sources, articles, active, faults, lastEntry, attempted, resolvedBy, env, stop, fn>>

\* mutant of Caught: an error that fetch_once raised ends the loop
CaughtEndsLoop(c, d) == [c EXCEPT !.pc = "done"]

\* run_forever, `except Exception`: the error is logged and the loop goes on
\* to compute its sleep
Caught(c, d) ==
    [c EXCEPT !.pc = "sleep", !.elapsed = d,
              !.sleep_for = SleepFor(ClampInterval(env.FETCH_INTERVAL_SECONDS), d)]

\* fetch_once: db.close() in the `finally` clause raises (the connection to
\* the store is lost); no handler of fetch_once covers it, so the error reaches
\* run_forever
FetchOnceRaises(w) ==
    LET s == st[w]
        c == [s EXCEPT !.cycle = s.cycle + 1, !.fi = 0]
    IN  /\ s.pc = "close"
        /\ Looping(w)
        /\ faults < MaxFaults
        /\ faults' = faults + 1
        /\ \E d \in env.durations : st' = [st EXCEPT ![w] = Caught(c, d)]
        /\ attempted' = [attempted EXCEPT ![w].failures = @ \cup {"fetch_once"}]
        /\ counts' = [counts EXCEPT ![w] = Append(@, Len(articles))]
        /\ UNCHANGED <<sources, articles, active, lastEntry, resolvedBy, env, stop, fn>>

\* run_forever: time.sleep(sleep_for) returns and the loop starts over (the
\* model follows it for MaxCycles cycles)
Sleep(w) ==
    LET s == st[w]
    IN  /\ s.pc = "sleep"
        /\ st' = [st EXCEPT ![w].pc = IF s.cycle < CyclesOf(w) THEN "idle" ELSE "done"]
        /\ UNCHANGED <<sources, articles, active, faults, lastEntry, attempted, resolvedBy,
                       counts, env, stop, fn>>

\* fetch_once: the server of the feed accepts the request and never responds
FeedFetchHangs(w) ==
    LET s == st[w]
    IN  /\ s.pc = "feed"
        /\ faults < MaxFaults
        /\ faults' = faults + 1
        /\ st' = [st EXCEPT ![w] = IF Blocks(FeedTimeout)
                                   THEN [s EXCEPT !.pc = "blocked"] ELSE AfterFeed(s)]
        /\ attempted' = [attempted EXCEPT ![w].feeds = @ \cup {s.fi},
                                          ![w].failures = @ \cup {"feed"},
                                          ![w].order = Append(@, s.fi)]
        /\ UNCHANGED <<sources, articles, active, lastEntry, resolvedBy, counts, env, stop, fn>>

\* main.py lifespan: the application shuts down; nothing is passed to the
\* ingestion thread
RequestStop ==
    /\ ~stop
    /\ stop' = TRUE
    /\ UNCHANGED <<sources, articles, active, faults, st, lastEntry, attempted, resolvedBy,
                   counts, env, fn>>

\* the inputs of the direct calls
Docs ==
    { NoneDoc, Doc(<<>>), Doc(<<Seg(3, 0, 0, 0)>>), Doc(<<Seg(0, 49, 0, 0)>>),
      Doc(<<Seg(0, 60, 0, 0)>>), Doc(<<Seg(0, 60, 0, 1)>>),
      Doc(<<Seg(0, 20, 0, 1), Seg(0, 20, 0, 1), Seg(0, 20, 0, 1)>>),
      Doc(<<Seg(0, 20, 0, 1), Seg(1, 20, 0, 1), Seg(1, 20, 1, 1), Seg(1, 20, 0, 1)>>),
      Doc(<<Seg(0, 0, 0, 500)>>), Doc(<<Seg(0, 0, 0, 501)>>), Doc(<<Seg(0, 0, 0, 503)>>),
      Doc(<<Seg(2, 0, 0, 60), Seg(3, 0, 0, 0)>>) }
SentenceCounts == {0 - 1, 0, 1, 3}
\* the LSA summary is made of sentences of the text joined by single blanks
LsaOutcomes(d) == {LsaRaises, LsaGives(0), LsaGives(1), LsaGives(DocStrippedLen(d))}
Strs == {NoneStr, Str(0), Str(1), Str(80)}
Polarities ==
    {Raises, NoCompound} \cup
    {Compound(c) : c \in {0 - 100, 0 - 5, 0 - 4, 0, 4, 5, 100}}

\* summarize_text called on any of the texts
CallSummarize ==
    /\ fn.op = "none"
    /\ \E text \in Docs, n \in SentenceCounts :
          \E lsa \in LsaOutcomes(text) :
             fn' = [NoCall EXCEPT !.op = "summarize_text", !.text = text,
                                  !.sentences = n, !.lsa = lsa,
                                  !.out = summarize_text(text, n, lsa)]
    /\ UNCHANGED <<sources, articles, active, faults, st, lastEntry, attempted, resolvedBy,
                   counts, env, stop>>

\* sentiment_label called on any of the strings
CallSentiment ==
    /\ fn.op = "none"
    /\ \E text \in Strs, vs \in Polarities :
          fn' = [NoCall EXCEPT !.op = "sentiment_label", !.str = text, !.vs = vs,
                               !.label = sentiment_label(text, vs)]
    /\ UNCHANGED <<sources, articles, active, faults, st, lastEntry, attempted, resolvedBy,
                   counts, env, stop>>

\* the direct call has returned
Return ==
    /\ fn.op # "none"
    /\ fn' = NoCall
    /\ UNCHANGED <<sources, articles, active, faults, st, lastEntry, attempted, resolvedBy,
                   counts, env, stop>>

Next ==
    \/ \E w \in active : StartCycle(w)
    \/ \E w \in active : UpsertQuery(w)
    \/ \E w \in active : UpsertCommit(w)
    \/ \E w \in active : UpsertStoreError(w)
    \/ \E w \in active : ParseFeed(w)
    \/ \E w \in active : ParseFeedFails(w)
    \/ \E w \in active : DedupCheck(w)
    \/ \E w \in active : FindByFeed(w)
    \/ \E w \in active : FindByHost(w)
    \/ \E w \in active : Persist(w)
    \/ \E w \in active : PersistStoreError(w)
    \/ \E w \in active : FinishCycle(w)
    \/ \E w \in active : Sleep(w)

\* the loop, a feed server that may never respond, and the shutdown
NextLoop ==
    \/ Next
    \/ \E w \in active : FeedFetchHangs(w)
    \/ \E w \in active : FetchOnceRaises(w)
    \/ RequestStop

\* the loop and, beside it, direct calls of the analysis functions
NextAnalysis ==
    \/ Next
    \/ CallSummarize
    \/ CallSentiment
    \/ Return

\* two overlapping loops sharing the store
Spec == Init /\ [][Next]_vars
\* a single ingestion loop
SpecSeq == InitSeq /\ [][Next]_vars

\* the configured intervals and the durations of a cycle (tenths of a second)
Intervals == {0 - 5, 0, 59, 60, 61, 120}
Durations == {0, 9, 10, 300, 555, 599, 600, 1200}
InitLoop ==
    /\ InitCommon
    /\ active = {1}
    /\ env \in [FETCH_INTERVAL_SECONDS : Intervals, durations : {Durations}]
\* run_forever alone, under any configured interval and cycle duration
SpecLoop == InitLoop /\ [][NextLoop]_vars
\* a single loop and the analysis functions
SpecAnalysis == InitSeq /\ [][NextAnalysis]_vars

\* ================================================================== claims
SourceRows == Ids(sources)
ArticleRows == Ids(articles)
Running == {"idle", "done", "close", "sleep"}

\* The entry a worker's latest process_feed_entry call handled
EntryOf(le) == FeedEntries(FEEDS[le.fi])[le.ei]

\* C1: in every reachable state, overlapping runs included, no two distinct
\* Article rows have the same URL hash, and so none the same URL
UniqueUrlHash ==
    \A i, j \in ArticleRows :
        i # j => /\ articles[i].url_hash # articles[j].url_hash
                 /\ articles[i].url # articles[j].url

\* C1 witness: a run got past the dedup check and lost the race: the store
\* rejected its Article because the other run had stored that URL
UniqueUrlHashWitness ==
    \E w \in active :
        /\ lastEntry[w].state = "ended"
        /\ lastEntry[w].why = "conflict"
        /\ \E i \in ArticleRows :
              articles[i].url_hash = make_hash(StripLink(EntryOf(lastEntry[w]).link))

FailureIsolation ==
    \A w \in active :
        (st[w].pc \in Running /\ (st[w].pc = "close" \/ st[w].cycle > 0))
        => /\ attempted[w].feeds = FeedIdx
           /\ \A f \in attempted[w].parsed :
                 \A k \in 1..Len(FeedEntries(FEEDS[f])) :
                     k <= MaxItems => <<f, k>> \in attempted[w].entries

\* C4 witness: a cycle ends in which a feed could not be fetched, an entry
\* had no source and an entry had too little text
FailureIsolationWitness ==
    \E w \in active :
        /\ st[w].pc = "close"
        /\ {"feed", "no_source", "short"} \subseteq attempted[w].failures
        /\ attempted[w].feeds = FeedIdx

\* C5 (the claim as stated): a process_feed_entry call that got past the
\* dedup check and ended without storing an Article has left no row of its
\* own in the store
NoPartialWrite ==
    \A w \in active :
        (lastEntry[w].state = "ended" /\ lastEntry[w].dedup /\ ~lastEntry[w].ok)
        => lastEntry[w].wrote = {}

\* C6: every stored Article has a text, of at least 100 characters after
\* strip()
MinimumText ==
    \A i \in ArticleRows :
        /\ ~articles[i].full_text.none
        /\ articles[i].full_text.body >= MinTextLen

\* C6 witness: an entry whose text has 100 characters or more, but fewer
\* without the surrounding whitespace, was skipped
MinimumTextWitness ==
    \E w \in active :
        /\ lastEntry[w].state = "ended"
        /\ lastEntry[w].why = "short"
        /\ LET e == EntryOf(lastEntry[w])
               text == ObtainedText(e, StripLink(e.link))
           IN  /\ TextLen(text) >= MinTextLen
               /\ \A i \in ArticleRows : articles[i].url_hash # make_hash(StripLink(e.link))

\* C7 (the claim as stated): all entries of one feed URL resolve to the same
\* Source id
SourceReuse ==
    \A f \in FeedIdx : Cardinality(resolvedBy[f]) <= 1

\* C8: in a single loop, no two Source rows have the same feed URL and no
\* two the same base URL
SourceUrlsUnique ==
    \A i, j \in SourceRows :
        i # j => /\ sources[i].rss_url # sources[j].rss_url
                 /\ sources[i].base_url # sources[j].base_url

\* C8 witness: upsert_source has found the row of its base URL under another
\* feed URL and is about to update it instead of inserting a second row
SourceUrlsUniqueWitness ==
    /\ st[1].pc = "upsert_commit"
    /\ st[1].found # 0
    /\ sources[st[1].found].base_url = st[1].args.base_url
    /\ sources[st[1].found].rss_url # st[1].args.rss_url
    /\ Len(sources) > Len(DEFAULT_SOURCES) - 1

\* C9 (the claim as stated): with two overlapping runs, no two Source rows
\* have the same base URL or the same feed URL
OverlapNoDuplicateSources ==
    active = Workers =>
        \A i \in SourceRows : \A j \in SourceRows \ {i} :
            /\ sources[i].base_url # sources[j].base_url
            /\ sources[i].rss_url # sources[j].rss_url

\* C10: in a single loop, find_or_create_source returns the Source of the
\* feed URL whenever one is stored; it returns a Source by hostname only when
\* none has the feed URL; it creates a Source only when none has the feed URL
\* and none contains the hostname
ResolutionOrder ==
    [][LET s == st[1]
           host == get_hostname(StripLink(s.entries[s.ei].link))
           byFeed == {i \in SourceRows : sources[i].rss_url = FEEDS[s.fi]}
           byHost == {i \in SourceRows : Contains(sources[i].base_url, host)}
       IN  /\ (s.pc = "by_feed" /\ st'[1] # s /\ byFeed # {})
               => st'[1].pc = "persist" /\ st'[1].source \in byFeed
           /\ (s.pc = "by_host" /\ st'[1].pc = "persist")
               => byFeed = {} /\ host # <<>> /\ st'[1].source \in byHost
           /\ (s.pc \in {"by_host", "upsert_query", "upsert_commit"} /\ s.ctx # "seed"
               /\ st'[1].pc \in {"upsert_query", "upsert_commit"})
               => byFeed = {} /\ byHost = {} /\ host # <<>>
           /\ (s.ctx = "entry" /\ Len(sources') > Len(sources))
               => /\ byFeed = {} /\ byHost = {}
                  /\ st'[1].source = Len(sources')
                  /\ sources'[Len(sources')].rss_url = FEEDS[s.fi]
                  /\ sources'[Len(sources')].base_url = BaseUrlOf(host)]_vars

\* C10 witness: the Source of the feed URL was returned although another
\* Source's base URL contains the article's hostname
ResolutionOrderWitness ==
    LET s == st[1]
        host == get_hostname(CurUrl(s))
    IN  /\ s.pc = "persist"
        /\ sources[s.source].rss_url = FEEDS[s.fi]
        /\ host # <<>>
        /\ \E j \in SourceRows :
              /\ j # s.source
              /\ sources[j].rss_url # FEEDS[s.fi]
              /\ Contains(sources[j].base_url, host)

\* an inline text that is long enough to be an Article's text
Sufficient(t) == ~t.none /\ StrippedLen(t) >= MinTextLen

\* the first of inline content, inline summary and page that is long enough
FirstSufficient(e, url) ==
    IF Sufficient(e.content) THEN "content"
    ELSE IF Sufficient(e.summary) THEN "summary"
    ELSE IF Sufficient(extract_text(url)) THEN "page"
    ELSE "none"

\* C11 (the claim as stated): a call of process_feed_entry fetches the page
\* only when neither the entry's inline content nor its inline summary is
\* long enough, and the text of the Article it stores comes from the first
\* of inline content, inline summary and page that is long enough
ExtractorOrder ==
    \A w \in active :
        lastEntry[w].state = "ended" =>
            LET le == lastEntry[w]
                e == EntryOf(le)
            IN  /\ le.fetched => (~Sufficient(e.content) /\ ~Sufficient(e.summary))
                /\ le.ok => le.used = FirstSufficient(e, StripLink(e.link))

\* C12 (the claim as stated): the Article of an entry that has a summary, no
\* inline content and a link whose page gives no text has the summary without
\* its HTML markup as its text
SummaryStripped ==
    \A f \in FeedIdx :
        \A k \in 1..Len(FeedEntries(FEEDS[f])) :
            LET e == FeedEntries(FEEDS[f])[k]
                url == StripLink(e.link)
            IN  (e.content.none /\ ~e.summary.none /\ Falsy(extract_text(url))) =>
                    \A i \in ArticleRows :
                        (articles[i].url = url /\ articles[i].meta.feed = FEEDS[f]) =>
                            /\ articles[i].full_text.tags = 0
                            /\ TextLen(articles[i].full_text)
                                   = TextLen(e.summary) - e.summary.tags

\* the feeds in their configured order, each once
EachFeedOnce == [i \in 1..Len(FEEDS) |-> i]

\* C13: in each cycle the feeds are attempted in their configured order, none
\* twice, and when the cycle closes its session, and so when run_forever
\* sleeps, every configured feed has been attempted exactly once
FeedsOnceThenSleep ==
    \A w \in active :
        /\ attempted[w].order = [i \in 1..Len(attempted[w].order) |-> i]
        /\ Len(attempted[w].order) <= Len(FEEDS)
        /\ (st[w].pc \in {"close", "sleep"} \/ (st[w].pc \in {"idle", "done"} /\ st[w].cycle > 0))
              => attempted[w].order = EachFeedOnce

\* C13 witness: run_forever sleeps after a cycle in which a feed failed to
\* load: both feeds were attempted once
FeedsOnceThenSleepWitness ==
    /\ st[1].pc = "sleep"
    /\ attempted[1].order = <<1, 2>>
    /\ "feed" \in attempted[1].failures
    /\ attempted[1].parsed # {}

\* any step of worker w
WorkerStep(w) ==
    \/ StartCycle(w) \/ UpsertQuery(w) \/ UpsertCommit(w) \/ UpsertStoreError(w)
    \/ ParseFeed(w) \/ ParseFeedFails(w) \/ FeedFetchHangs(w) \/ DedupCheck(w)
    \/ FindByFeed(w) \/ FindByHost(w) \/ Persist(w) \/ PersistStoreError(w)
    \/ FinishCycle(w) \/ FetchOnceRaises(w) \/ Sleep(w)

\* C14 (the claim as stated): a cycle that has started can always go on: no
\* fetch leaves fetch_once waiting without end for a server that never
\* responds, so the cycle finishes
CycleFinishes ==
    \A w \in active :
        st[w].pc \notin {"idle", "sleep", "done"} => ENABLED WorkerStep(w)

\* C15 (the claim as stated): whatever the configured interval and however
\* long the cycle took, run_forever sleeps at least 60 seconds between the
\* end of one cycle and the start of the next
SleepAtLeastMinInterval ==
    \A w \in active : st[w].pc = "sleep" => st[w].sleep_for >= MinInterval

\* C15 (amended): after each cycle run_forever sleeps the configured
\* interval, clamped to at least 60 seconds, less the whole seconds the cycle
\* took, and at least 5 seconds: the sleep is never shorter than 5 seconds and
\* the next cycle never starts less than 60 seconds after this one started
SleepKeepsPeriod ==
    \A w \in active :
        st[w].pc = "sleep" =>
            LET cfg == env.FETCH_INTERVAL_SECONDS
                interval == IF cfg > MinInterval THEN cfg ELSE MinInterval
                rest == interval - (st[w].elapsed \div 10)
            IN  /\ st[w].sleep_for >= MinSleep
                /\ st[w].sleep_for = (IF rest > MinSleep THEN rest ELSE MinSleep)
                /\ st[w].elapsed + 10 * st[w].sleep_for >= 10 * MinInterval
                /\ st[w].cycle = Len(counts[w])

\* C15 witness: the configured interval is below 60 seconds and the cycle
\* took longer than the clamped interval: run_forever sleeps 5 seconds
SleepKeepsPeriodWitness ==
    /\ st[1].pc = "sleep"
    /\ env.FETCH_INTERVAL_SECONDS < MinInterval
    /\ st[1].elapsed > 10 * MinInterval
    /\ st[1].sleep_for = MinSleep

\* C16 (the claim as stated): once the shutdown has been requested, a loop
\* that is sleeping, or has slept, after a cycle starts no further cycle
StopHonoured ==
    [][\A w \in active :
          (stop /\ st[w].cycle > 0 /\ st[w].pc \in {"sleep", "idle"})
              => st'[w].pc # "upsert_query"]_vars

\* C17: a call of process_feed_entry whose link is already stored as an
\* Article ends at the dedup check: it returns False without an error, the
\* loop moves on, and no Article or Source row is added or changed
KnownUrlNoOp ==
    [][\A w \in active :
          (/\ st[w].pc = "entry"
           /\ st'[w] # st[w]
           /\ ~IsEmptyUrl(StripLink(st[w].entries[st[w].ei].link))
           /\ \E i \in ArticleRows :
                 articles[i].url_hash = make_hash(StripLink(st[w].entries[st[w].ei].link)))
          => /\ articles' = articles
             /\ sources' = sources
             /\ faults' = faults
             /\ lastEntry'[w].state = "ended"
             /\ lastEntry'[w].why = "known"
             /\ ~lastEntry'[w].ok
             /\ lastEntry'[w].wrote = {}
             /\ ~lastEntry'[w].fetched
             /\ st'[w].pc \in {"entry", "feed", "close"}]_vars

\* C17 witness: a worker has met a link whose Article the overlapping worker
\* had stored, and skipped it
KnownUrlNoOpWitness ==
    \E w \in active :
        /\ lastEntry[w].state = "ended"
        /\ lastEntry[w].why = "known"
        /\ \E i \in ArticleRows :
              /\ articles[i].url_hash = make_hash(StripLink(EntryOf(lastEntry[w]).link))
              /\ articles[i].meta.feed = FEEDS[lastEntry[w].fi]

\* C18 (the claim as stated): for every non-empty text and every sentence
\* count, summarize_text returns a non-empty string that is not longer than
\* the text
SummaryBounded ==
    (fn.op = "summarize_text" /\ ~fn.text.none /\ DocLen(fn.text) > 0)
        => /\ ~fn.out.none
           /\ fn.out.len > 0
           /\ fn.out.len <= DocLen(fn.text)

SentimentLabels == {"positive", "neutral", "negative"}

\* C19: sentiment_label returns one of positive, neutral and negative for
\* every input, neutral for an empty text and when the analyzer raises, and
\* the sentiment of every stored Article is one of the three
SentimentTotal ==
    /\ fn.op = "sentiment_label" =>
          /\ fn.label \in SentimentLabels
          /\ (fn.str.none \/ fn.str.len = 0 \/ fn.vs.raises) => fn.label = "neutral"
    /\ \A i \in ArticleRows : articles[i].sentiment \in SentimentLabels

\* C19 witness: the analyzer raised on a non-empty text and the label is
\* neutral, beside stored Articles of another sentiment
SentimentTotalWitness ==
    /\ fn.op = "sentiment_label"
    /\ fn.vs.raises
    /\ fn.str.len > 0
    /\ fn.label = "neutral"
    /\ \E i, j \in ArticleRows :
          articles[i].sentiment = "negative" /\ articles[j].sentiment = "positive"

\* the positions of the entries of feed f that have a link, in feed order
LinkedPositions(f) ==
    SelectSeq([k \in 1..Len(FeedEntries(FEEDS[f])) |-> k],
              LAMBDA k : ~IsEmptyUrl(StripLink(FeedEntries(FEEDS[f])[k].link)))

\* C20 (the claim as stated): when a cycle has gone through a feed it
\* parsed, the entries it took as candidates are the entries of the feed that
\* have a link, in feed order, up to the per-feed maximum, and no Article has
\* an empty link
CandidatesLinkedCapped ==
    \A w \in active :
        st[w].pc = "close" =>
            /\ \A f \in attempted[w].parsed :
                  {k \in 1..Len(FeedEntries(FEEDS[f])) : <<f, k>> \in attempted[w].candidates}
                      = {Capped(LinkedPositions(f))[j] :
                             j \in 1..Len(Capped(LinkedPositions(f)))}
            /\ \A i \in ArticleRows : ~IsEmptyUrl(articles[i].url)

UntitledWhenNoTitle ==
    \A i \in ArticleRows :
        /\ articles[i].meta.feed_title.none => articles[i].title = Len("Untitled")
        /\ articles[i].title <= TitleMax

\* C24 (the claim as stated): the published timestamp of a stored Article is
\* the published time of its entry if the entry has one, otherwise the
\* updated time of the entry if it has one, otherwise absent; the Article of an
\* entry that has only an updated time has that time as its published
\* timestamp
PublishedThenUpdated ==
    \A i \in ArticleRows :
        \A f \in FeedIdx :
            \A k \in 1..Len(FeedEntries(FEEDS[f])) :
                LET e == FeedEntries(FEEDS[f])[k]
                IN  (articles[i].meta.feed = FEEDS[f] /\ articles[i].url = StripLink(e.link))
                    => articles[i].published_at
                           = IF ~e.published.none /\ e.published.valid THEN e.published
                             ELSE IF ~e.updated.none THEN e.updated
                             ELSE NoneTime

\* C25: referential integrity and growth.  After every step (and at the start,
\* when there is no Article), every stored Article references a Source that
\* is in the store (its source_id is the id of a row); and no step
\* deletes a row: every Source id and every Article id of the store is still
\* there after the step, the Source keeps its base_url and the Article is
\* unchanged
ReferencesHoldRowsStay ==
    [][/\ \A i \in Ids(articles') : articles'[i].source_id <= Len(sources')
                                      /\ articles'[i].source_id >= 1
       /\ Len(sources) <= Len(sources')
       /\ Len(articles) <= Len(articles')
       /\ sources' # sources
             => \A i \in Ids(sources) : sources'[i].base_url = sources[i].base_url
       /\ articles' # articles
             => SubSeq(articles', 1, Len(articles)) = articles
    ]_vars

\* C25 witness: the store holds the default Sources and a Source that
\* find_or_create_source added, and two Articles, one of them of the added
\* Source
ReferencesHoldRowsStayWitness ==
    /\ Len(sources) > Len(DEFAULT_SOURCES)
    /\ Len(articles) >= 2
    /\ \E i \in ArticleRows :
          /\ articles[i].source_id > Len(DEFAULT_SOURCES)
          /\ articles[i].source_id \in Ids(sources)
====
